---- MODULE Spec2Model ----
(***************************************************************************)
(* A model of mini-git (src/main.go): the object store (writeObject,       *)
(* readObject), the tree encoding of write-tree and its decoding by        *)
(* ls-tree, the commit encoding of commit-tree, and the command handlers.  *)
(*                                                                         *)
(* Strings and byte slices are sequences of byte values 0..255.  A Go      *)
(* slice expression s[lo:hi] is Slice(s, lo, hi) with 0-based offsets.     *)
(* A command ends in one of three ways: "ok" (it returns), "exit1" (it     *)
(* prints to stderr and calls os.Exit(1)) or "panic" (a Go run-time panic: *)
(* a nil dereference, a slice bound or an index out of range).             *)
(***************************************************************************)
EXTENDS Integers, Sequences, FiniteSets, TLC

VARIABLES files, dirs, head, last, input, log, procs

vars == <<files, dirs, head, last, input, log, procs>>

(***************************************************************************)
(* Bounds of the model.                                                    *)
(***************************************************************************)
\* longest payload handed to store in SpecStore and SpecLoad
MaxLen == 2
\* most entries of a tree in SpecTree
MaxEntries == 2
\* most object files the commands of Spec put in the store
MaxObjects == 3
\* longest decompressed content of the file SpecLoad reads
MaxRaw == 3

(***************************************************************************)
(* Bytes and literals of the source.                                       *)
(***************************************************************************)
NUL == 0
SP == 32
LF == 10
\* sha1.Size, the "i += 20" of cmdLsTree
DigestLen == 20

\* "blob", "tree", "commit", "100644", "tree " as bytes
KindBlob == <<98, 108, 111, 98>>
KindTree == <<116, 114, 101, 101>>
KindCommit == <<99, 111, 109, 109, 105, 116>>
Mode == <<49, 48, 48, 54, 52, 52>>
\* "ref: refs/heads/main\n"
headFileContents ==
  <<114, 101, 102, 58, 32, 114, 101, 102, 115, 47, 104, 101, 97, 100, 115, 47,
    109, 97, 105, 110, 10>>

(***************************************************************************)
(* Go's slice and string primitives.                                       *)
(***************************************************************************)
\* a function on 1..n as the sequence it is
AsSeq(f) == f \o <<>>

Range(f) == {f[x] : x \in DOMAIN f}

\* s[lo:hi] of Go, defined for 0 <= lo <= hi <= len(s)
Slice(s, lo, hi) == SubSeq(s, lo + 1, hi)

\* whether s[lo:hi] panics (slice bounds out of range)
SliceOk(s, lo, hi) == 0 <= lo /\ lo <= hi /\ hi <= Len(s)

\* bytes.IndexByte: the 0-based offset of the first b in s, or -1
IndexByte(s, b) ==
  IF \E i \in 1..Len(s) : s[i] = b
  THEN (CHOOSE i \in 1..Len(s) : s[i] = b /\ \A j \in 1..(i - 1) : s[j] # b) - 1
  ELSE -1

\* strings.HasPrefix
HasPrefix(s, p) == Len(s) >= Len(p) /\ SubSeq(s, 1, Len(p)) = p

\* the %d verb: a natural number in decimal
RECURSIVE Dec(_)
Dec(n) == IF n < 10 THEN <<48 + n>> ELSE Dec(n \div 10) \o <<48 + (n % 10)>>

\* one hex digit of the %x verb, and its value back (hex.DecodeString)
HexChar(n) == IF n < 10 THEN 48 + n ELSE 87 + n
UnHexChar(c) == IF c <= 57 THEN c - 48 ELSE c - 87

\* fmt.Sprintf("%x", h): two lowercase hex digits a byte
Hex(bs) ==
  AsSeq([i \in 1..(2 * Len(bs)) |->
           IF i % 2 = 1 THEN HexChar(bs[(i + 1) \div 2] \div 16)
                        ELSE HexChar(bs[i \div 2] % 16)])

\* hex.DecodeString on a string of hex digits
hexDecodeString(hs) ==
  AsSeq([i \in 1..(Len(hs) \div 2) |->
           UnHexChar(hs[2 * i - 1]) * 16 + UnHexChar(hs[2 * i])])

(***************************************************************************)
(* crypto/sha1.  SHA-1 itself is outside what TLC can evaluate; what the   *)
(* program relies on is a fixed function from byte strings to 20-byte      *)
(* digests with no collision among the objects it handles.  The model uses *)
(* two polynomial digests over the bytes (computed by halving, to keep the *)
(* evaluation shallow), zero-extended to DigestLen bytes; NoCollision      *)
(* below checks that the digest separates the objects of a store.          *)
(***************************************************************************)
RECURSIVE powMod(_, _, _)
powMod(b, e, m) ==
  IF e = 0 THEN 1
  ELSE LET half == powMod(b, e \div 2, m)
       IN  IF e % 2 = 0 THEN (half * half) % m ELSE (((half * half) % m) * b) % m

RECURSIVE polyDigest(_, _, _, _, _)
polyDigest(s, lo, hi, b, m) ==
  IF lo > hi THEN 0
  ELSE IF lo = hi THEN (s[lo] + 1) % m
  ELSE LET mid == (lo + hi) \div 2
       IN  (polyDigest(s, lo, mid, b, m) * powMod(b, hi - mid, m)
            + polyDigest(s, mid + 1, hi, b, m)) % m

sha1Sum(object) ==
  LET h1 == polyDigest(object, 1, Len(object), 131, 46337)
      h2 == polyDigest(object, 1, Len(object), 257, 46327)
  IN  <<h1 % 256, h1 \div 256, h2 % 256, h2 \div 256>>
      \o [i \in 1..(DigestLen - 4) |-> 0]

(***************************************************************************)
(* compress/zlib.  A zlib stream is a 2-byte header, a deflate body and    *)
(* the Adler-32 of the data, big-endian.  The body is modelled as one      *)
(* final stored block (block byte 1, LEN, NLEN, the data), which is a      *)
(* valid deflate encoding of the data.  zlib.Writer hands the header to    *)
(* the file on the first Write and, for data below flate's block size,     *)
(* the body and then the checksum on Close.                                *)
(***************************************************************************)
zlibHeader == <<120, 156>>

zlibBody(data) ==
  <<1, Len(data) % 256, Len(data) \div 256,
    255 - (Len(data) % 256), 255 - (Len(data) \div 256)>> \o data

\* the sum over i in lo..hi of data[i] * (w - i), by halving
RECURSIVE weightedSum(_, _, _, _)
weightedSum(data, lo, hi, w) ==
  IF lo > hi THEN 0
  ELSE IF lo = hi THEN data[lo] * (w - lo)
  ELSE LET mid == (lo + hi) \div 2
       IN  weightedSum(data, lo, mid, w) + weightedSum(data, mid + 1, hi, w)

\* Adler-32: a is 1 plus the sum of the bytes, b the sum of the running a's
zlibChecksum(data) ==
  LET n == Len(data)
      a == (1 + weightedSum(data, 1, n, n + 1) - weightedSum(data, 1, n, n)) % 65521
      b == (n + weightedSum(data, 1, n, n + 1)) % 65521
  IN  <<b \div 256, b % 256, a \div 256, a % 256>>

zlibStream(data) == zlibHeader \o zlibBody(data) \o zlibChecksum(data)

\* zlib.NewReader: it fails (and returns a nil reader) on a short or bad header
zlibNewReaderOk(f) ==
  /\ Len(f) >= 2
  /\ f[1] % 16 = 8
  /\ f[1] \div 16 <= 7
  /\ (f[1] * 256 + f[2]) % 31 = 0
  /\ (f[2] \div 32) % 2 = 0

\* io.ReadAll(zr) with its error dropped: the bytes decoded before the stream
\* ends or turns invalid
zlibReadAll(f) ==
  LET body == Slice(f, 2, Len(f))
  IN  IF Len(body) < 5 \/ body[1] # 1 THEN <<>>
      ELSE LET len == body[2] + 256 * body[3]
               nlen == body[4] + 256 * body[5]
           IN  IF len + nlen # 65535 THEN <<>>
               ELSE IF Len(body) - 5 >= len THEN Slice(body, 5, 5 + len)
               ELSE Slice(body, 5, Len(body))

(***************************************************************************)
(* The files under .git/objects: a function from <<dir, file>> (the first  *)
(* 2 and the last 38 hex digits) to the file's bytes.                      *)
(***************************************************************************)
\* os.OpenFile(file, O_WRONLY|O_CREATE|O_TRUNC): the file exists and is empty
fsOpenTrunc(fs, path) == (path :> <<>>) @@ fs

\* a write through a descriptor, were the file opened with O_APPEND
fsAppend(fs, path, off, bs) == (path :> (fs[path] \o bs)) @@ fs

\* a write of bs at offset off through a descriptor; a gap reads as zeros
fsWriteAt(fs, path, off, bs) ==
  LET old == fs[path]
      n == IF Len(old) > off + Len(bs) THEN Len(old) ELSE off + Len(bs)
      new == [i \in 1..n |->
                IF i > off /\ i <= off + Len(bs) THEN bs[i - off]
                ELSE IF i <= Len(old) THEN old[i] ELSE 0]
  IN  (path :> AsSeq(new)) @@ fs

(***************************************************************************)
(* writeObject (lines 15-46).                                              *)
(***************************************************************************)
\* lines 16-17: header and object
objectHeader(objectType, content) ==
  objectType \o <<SP>> \o Dec(Len(content)) \o <<NUL>>

objectBytes(objectType, content) == objectHeader(objectType, content) \o content

\* lines 19-20
objectHash(objectType, content) == Hex(sha1Sum(objectBytes(objectType, content)))

\* lines 22-23 and 49-50: dir is hash[:2], file is hash[2:]
objectPath(hash) == <<Slice(hash, 0, 2), Slice(hash, 2, Len(hash))>>

\* line 25: os.MkdirAll(dir) makes the directory and its parents
writeObjectDirs(ds, hash) ==
  ds \cup {<<".git">>, <<".git", "objects">>, <<".git", "objects", Slice(hash, 0, 2)>>}

\* the steps of lines 26-43 on the file, in order
stepOpen(fs, path) == fsOpenTrunc(fs, path)
stepHeader(fs, path, obj) == fsWriteAt(fs, path, 0, zlibHeader)
stepBody(fs, path, obj) == fsWriteAt(fs, path, Len(zlibHeader), zlibBody(obj))
stepChecksum(fs, path, obj) ==
  fsWriteAt(fs, path, Len(zlibHeader) + Len(zlibBody(obj)), zlibChecksum(obj))

\* a whole call of writeObject on the files
writeObjectFiles(fs, objectType, content) ==
  LET obj == objectBytes(objectType, content)
      path == objectPath(objectHash(objectType, content))
  IN  stepChecksum(stepBody(stepHeader(stepOpen(fs, path), path, obj), path, obj),
                   path, obj)

(***************************************************************************)
(* readObject (lines 48-69).                                               *)
(***************************************************************************)
Failed(status) == [status |-> status, kind |-> <<>>, content |-> <<>>]

\* lines 63-68, were the header taken up to the last NUL byte
parseObjectLastNul(data) ==
  LET nuls == {i \in 1..Len(data) : data[i] = NUL}
  IN  IF nuls = {} THEN Failed("panic")
      ELSE LET nullIndex == (CHOOSE i \in nuls : \A j \in nuls : j <= i) - 1
               header == Slice(data, 0, nullIndex)
               sp == IndexByte(header, SP)
           IN  [status |-> "ok",
                kind |-> IF sp = -1 THEN header ELSE Slice(header, 0, sp),
                content |-> Slice(data, nullIndex + 1, Len(data))]

\* lines 63-68 on the decompressed bytes
parseObject(data) ==
  LET nullIndex == IndexByte(data, NUL)
  IN  IF ~SliceOk(data, 0, nullIndex) THEN Failed("panic")
      ELSE LET header == Slice(data, 0, nullIndex)
               content == Slice(data, nullIndex + 1, Len(data))
               sp == IndexByte(header, SP)
               parts0 == IF sp = -1 THEN header ELSE Slice(header, 0, sp)
           IN  [status |-> "ok", kind |-> parts0, content |-> content]

readObject(fs, hash) ==
  IF ~SliceOk(hash, 0, 2) THEN Failed("panic")
  ELSE IF objectPath(hash) \notin DOMAIN fs THEN Failed("exit1")
  ELSE IF ~zlibNewReaderOk(fs[objectPath(hash)]) THEN Failed("panic")
  ELSE parseObject(zlibReadAll(fs[objectPath(hash)]))

\* lines 26-30, were the file opened with O_EXCL
openFileExcl(fs, path) == path \in DOMAIN fs

\* lines 26-30: whether os.OpenFile fails; O_CREATE|O_TRUNC opens a file that
\* exists as well as one that does not (the medium is taken to be writable)
openFileErr(fs, path) == FALSE

\* line 45, were the returned name to depend on the files already there
writeObjectReturnByStore(fs, objectType, content) ==
  Hex(sha1Sum(objectBytes(objectType, content) \o <<Cardinality(DOMAIN fs)>>))

\* line 45: what writeObject returns when called on the files fs
writeObjectReturn(fs, objectType, content) == objectHash(objectType, content)

\* the hash a path of the store stands for
pathHash(path) == path[1] \o path[2]

\* the hashes with a file in the store
present(fs) == {pathHash(path) : path \in DOMAIN fs}

\* what a reader can observe of the store: each present hash with what
\* readObject returns for it
observable(fs) == [h \in present(fs) |-> readObject(fs, h)]

\* a hash with no object in any store of the model
AbsentHash == AsSeq([i \in 1..(2 * DigestLen) |-> 102])

\* the state shared by every specification before any command has run
NoFiles == <<>>
NoLast == [cmd |-> "none", arg |-> <<>>, status |-> "ok", out |-> <<>>]
Idle == [pc |-> "idle", kind |-> <<>>, content |-> <<>>, hash |-> <<>>, res |-> <<>>]

(***************************************************************************)
(* SpecStore: store and load as functions.  The object under test          *)
(* (input.k, input.p) is drawn from bounded sets; it is stored, other      *)
(* objects are stored beside it, objects are loaded, and the store may be  *)
(* replaced by a fresh one.  log keeps what the stores of the object under *)
(* test returned (ret) and the kinds of store they were called on (on).    *)
(***************************************************************************)
PayloadBytes == {NUL, SP, 97}
SeqsUpTo(S, n) == UNION {[1..m -> S] : m \in 0..n}
Payloads == SeqsUpTo(PayloadBytes, MaxLen)
\* blob, tree, commit and a kind the program does not know: "x"
Kinds == {KindBlob, KindTree, KindCommit, <<120>>}
Others == {<<KindBlob, <<97>>>>}

\* what the store held when store was called on it: nothing, the object
\* itself ("again"), or only other objects; "fresh-" marks a later store instance
storeContext(fs, hash, fresh) ==
  LET c == IF fs = NoFiles THEN "empty"
           ELSE IF hash \in present(fs) THEN "again" ELSE "other"
  IN  IF fresh THEN <<"fresh", c>> ELSE <<"first", c>>

InitStore ==
  /\ files = NoFiles
  /\ dirs = {}
  /\ head = <<>>
  /\ last = NoLast
  /\ input \in [k : Kinds, p : Payloads]
  /\ log = [fresh |-> FALSE, ret |-> {}, on |-> {}]
  /\ procs = <<>>

\* store(k, p): writeObject
Store(k, p) ==
  \E hash \in {objectHash(k, p)} :
      IF openFileErr(files, objectPath(hash))
      THEN /\ last' = [cmd |-> "store", arg |-> <<k, p>>, status |-> "exit1", out |-> <<>>]
           /\ dirs' = writeObjectDirs(dirs, hash)
           /\ UNCHANGED files
      ELSE /\ files' = writeObjectFiles(files, k, p)
           /\ dirs' = writeObjectDirs(dirs, hash)
           /\ last' = [cmd |-> "store", arg |-> <<k, p>>, status |-> "ok",
                       out |-> <<writeObjectReturn(files, k, p)>>]

StoreSubject ==
  /\ Store(input.k, input.p)
  /\ log' = [log EXCEPT
               !.ret = @ \cup {last'.out},
               !.on = @ \cup {storeContext(files, objectHash(input.k, input.p), log.fresh)}]
  /\ UNCHANGED <<head, input, procs>>

StoreOther ==
  /\ \E o \in Others : Store(o[1], o[2])
  /\ UNCHANGED <<head, input, log, procs>>

\* load(hash): readObject
Load ==
  /\ \E hash \in present(files) \cup {AbsentHash} :
       LET r == readObject(files, hash)
       IN  last' = [cmd |-> "load", arg |-> <<hash>>, status |-> r.status,
                    out |-> IF r.status = "ok" THEN <<r.kind, r.content>> ELSE <<>>]
  /\ UNCHANGED <<files, dirs, head, input, log, procs>>

\* a fresh store instance: an empty root directory
FreshStore ==
  /\ files # NoFiles
  /\ files' = NoFiles
  /\ dirs' = {}
  /\ last' = NoLast
  /\ log' = [log EXCEPT !.fresh = TRUE]
  /\ UNCHANGED <<head, input, procs>>

NextStore == StoreSubject \/ StoreOther \/ Load \/ FreshStore

SpecStore == InitStore /\ [][NextStore]_vars

\* the digest separates the objects of the store: no file holds an object
\* other than the one its name is the hash of
NoCollision ==
  \A h \in present(files) :
    LET r == readObject(files, h)
    IN  r.status = "ok" => objectHash(r.kind, r.content) = h

\* C1: load(store(k, p)) returns exactly (k, p): right after store(k, p) has
\* returned hash h, readObject of h succeeds with kind k and payload p
C1_RoundTrip ==
  (last.cmd = "store" /\ last.status = "ok") =>
    readObject(files, last.out[1]) =
      [status |-> "ok", kind |-> last.arg[1], content |-> last.arg[2]]

\* C1 witness: a payload with a NUL byte has been stored and read back whole
C1_Witness ==
  /\ last.cmd = "load" /\ last.status = "ok"
  /\ last.out = <<input.k, input.p>>
  /\ \E i \in 1..Len(input.p) : input.p[i] = NUL

\* C2: every store of (k, p) returns the same address, whatever the store
\* held when it was called and whether or not the store was a fresh one
C2_Determinism ==
  \A r1, r2 \in log.ret : r1 = r2

\* C2 witness: (k, p) has been stored into a store holding another object,
\* into a store holding (k, p) already, and into an empty fresh store instance
C2_Witness ==
  /\ {<<"first", "other">>, <<"first", "again">>, <<"fresh", "empty">>}
       \subseteq log.on
  /\ log.ret # {}

\* C3: a store of (k, p) into a store that already holds (k, p) succeeds and
\* leaves the present addresses and what each loads to unchanged
C3_Idempotent ==
  [][(/\ last'.cmd = "store"
      /\ objectHash(last'.arg[1], last'.arg[2]) \in present(files)
      /\ readObject(files, objectHash(last'.arg[1], last'.arg[2])) =
           [status |-> "ok", kind |-> last'.arg[1], content |-> last'.arg[2]])
     => (last'.status = "ok" /\ observable(files') = observable(files))]_vars

\* C3 witness: the object under test has been stored twice into one store
C3_Witness ==
  /\ last.cmd = "store" /\ last.arg = <<input.k, input.p>>
  /\ \E c \in log.on : c[2] = "again"

(***************************************************************************)
(* SpecLoad: readObject on a store it did not write.  The object file is   *)
(* a (possibly cut) zlib stream of raw bytes drawn from a bounded set: the *)
(* store is a directory that other writers and clone fill as well.         *)
(***************************************************************************)
\* NUL, space, "b", "1"
RawBytes == {NUL, SP, 98, 49}
RawData == SeqsUpTo(RawBytes, MaxRaw)
\* the address the file is kept under
LoadHash == objectHash(KindBlob, <<>>)

loadFiles(in) == objectPath(LoadHash) :> SubSeq(zlibStream(in.data), 1, in.keep)

InitLoad ==
  /\ input \in {in \in [data : RawData, keep : 0..(MaxRaw + 11)] :
                  in.keep <= Len(zlibStream(in.data))}
  /\ files = loadFiles(input)
  /\ dirs = writeObjectDirs({}, LoadHash)
  /\ head = <<>>
  /\ last = NoLast
  /\ log = <<>>
  /\ procs = <<>>

LoadAt(hash) ==
  /\ LET r == readObject(files, hash)
     IN  last' = [cmd |-> "load", arg |-> <<hash>>, status |-> r.status,
                  out |-> IF r.status = "ok" THEN <<r.kind, r.content>> ELSE <<>>]
  /\ UNCHANGED <<files, dirs, head, input, log, procs>>

LoadStored == LoadAt(LoadHash)

LoadMissing == LoadAt(AbsentHash)

NextLoad == LoadStored \/ LoadMissing

SpecLoad == InitLoad /\ [][NextLoad]_vars

\* the decompressed bytes are framed: a NUL, and before it "<kind> <digits>"
IsDigits(s) == s # <<>> /\ \A i \in 1..Len(s) : s[i] \in 48..57
Framed(data) ==
  /\ IndexByte(data, NUL) >= 0
  /\ LET header == Slice(data, 0, IndexByte(data, NUL))
     IN  /\ IndexByte(header, SP) >= 0
         /\ IsDigits(Slice(header, IndexByte(header, SP) + 1, Len(header)))

\* C6: a load of an absent address fails (exit 1), a load of a file whose
\* decompressed bytes have no NUL or no "<kind> <length>" header fails too;
\* a failed load returns no (kind, payload), and no load changes the store
C6_LoadFailures ==
  /\ files = loadFiles(input)
  /\ last.cmd = "load" =>
       /\ last.arg[1] = AbsentHash => last.status = "exit1"
       /\ (last.arg[1] = LoadHash /\ ~zlibNewReaderOk(files[objectPath(LoadHash)]))
            => last.status # "ok"
       /\ (last.arg[1] = LoadHash /\ ~Framed(zlibReadAll(files[objectPath(LoadHash)])))
            => last.status # "ok"
       /\ last.status # "ok" => last.out = <<>>

(***************************************************************************)
(* The tree encoding of cmdWriteTree (lines 121-127) and its decoding by   *)
(* cmdLsTree (lines 146-157).                                              *)
(***************************************************************************)
\* lines 122-127: one entry, "<mode> <path>\0" and the raw hash bytes
treeEntry(mode, path, hashBytes) == mode \o <<SP>> \o path \o <<NUL>> \o hashBytes

\* lines 126-127 over the walk: the entries appended in order
RECURSIVE serialize(_)
serialize(entries) ==
  IF entries = <<>> THEN <<>>
  ELSE treeEntry(Head(entries).mode, Head(entries).name, Head(entries).child)
       \o serialize(Tail(entries))

\* line 150: strings.SplitN(entry, " ", 2)
splitEntryLast(entry) ==
  LET sp == CHOOSE i \in 0..Len(entry) :
              /\ i > 0 => entry[i] = SP
              /\ \A j \in (i + 1)..Len(entry) : entry[j] # SP
  IN  IF sp = 0 THEN <<entry>>
      ELSE <<Slice(entry, 0, sp - 1), Slice(entry, sp, Len(entry))>>

splitEntry(entry) ==
  LET sp == IndexByte(entry, SP)
  IN  IF sp = -1 THEN <<entry>>
      ELSE <<Slice(entry, 0, sp), Slice(entry, sp + 1, Len(entry))>>

\* lines 146-157 from cursor i: the status the loop ends with and, for each
\* round that reached line 156, the name it printed (with the mode it split
\* off and the bytes the cursor skipped as the hash)
RECURSIVE lsTreeFrom(_, _)
lsTreeFrom(content, i) ==
  IF ~(i < Len(content)) THEN [status |-> "ok", entries |-> <<>>]
  ELSE LET nullIndex == IndexByte(Slice(content, i, Len(content)), NUL)
       IN  IF ~SliceOk(content, i, i + nullIndex)
           THEN [status |-> "panic", entries |-> <<>>]
           ELSE LET parts == splitEntry(Slice(content, i, i + nullIndex))
                    next == i + nullIndex + 1 + DigestLen
                    end == IF next < Len(content) THEN next ELSE Len(content)
                IN  IF Len(parts) < 2
                    THEN [status |-> "panic", entries |-> <<>>]
                    ELSE LET rest == lsTreeFrom(content, next)
                         IN  [status |-> rest.status,
                              entries |->
                                <<[mode |-> parts[1], name |-> parts[2],
                                   child |-> Slice(content, i + nullIndex + 1, end)]>>
                                \o rest.entries]

lsTree(content) == lsTreeFrom(content, 0)

\* the names of entries, in order: what ls-tree prints
entryNames(entries) == [i \in 1..Len(entries) |-> entries[i].name]

(***************************************************************************)
(* SpecTree: the tree encoding as functions.  A sequence of entries drawn  *)
(* from bounded sets is serialized; the payload is decoded as it is, or    *)
(* after its last bytes have been cut off.                                 *)
(***************************************************************************)
\* "100644" and "100755"
Modes == {Mode, <<49, 48, 48, 55, 53, 53>>}
\* "a" and "a b"
EntryNames == {<<97>>, <<97, SP, 98>>}
\* raw hashes: one alternating space and NUL bytes, and the hash of a blob
Children ==
  {AsSeq([i \in 1..DigestLen |-> IF i % 2 = 1 THEN SP ELSE NUL]),
   sha1Sum(objectBytes(KindBlob, <<97>>))}
Entries == [mode : Modes, name : EntryNames, child : Children]

InitTree ==
  /\ input \in [entries : SeqsUpTo(Entries, MaxEntries), payload : {<<>>},
                stage : {"new"}]
  /\ files = NoFiles
  /\ dirs = {}
  /\ head = <<>>
  /\ last = NoLast
  /\ log = <<>>
  /\ procs = <<>>

Serialize ==
  /\ input.stage = "new"
  /\ input' = [input EXCEPT !.payload = serialize(input.entries), !.stage = "encoded"]
  /\ last' = NoLast
  /\ UNCHANGED <<files, dirs, head, log, procs>>

\* the payload loses its last k bytes
Truncate ==
  /\ input.stage = "encoded"
  /\ \E k \in 1..(DigestLen + 2) :
       /\ k <= Len(input.payload)
       /\ input' = [input EXCEPT
                      !.payload = SubSeq(input.payload, 1, Len(input.payload) - k),
                      !.stage = "cut"]
  /\ last' = NoLast
  /\ UNCHANGED <<files, dirs, head, log, procs>>

Deserialize ==
  /\ input.stage \in {"encoded", "cut"}
  /\ LET r == lsTree(input.payload)
     IN  last' = [cmd |-> "deserialize", arg |-> <<>>, status |-> r.status,
                  out |-> r.entries]
  /\ UNCHANGED <<files, dirs, head, input, log, procs>>

NextTree == Serialize \/ Truncate \/ Deserialize

SpecTree == InitTree /\ [][NextTree]_vars

\* C4: decoding the serialization of the entries E yields E, entry by entry
\* and in order (so the names ls-tree prints are the names written, in order)
C4_TreeRoundTrip ==
  (last.cmd = "deserialize" /\ input.stage = "encoded") =>
    /\ last.status = "ok"
    /\ last.out = input.entries
    /\ entryNames(last.out) = entryNames(input.entries)

\* C4 witness: two entries, a name with a space and a hash with NUL bytes,
\* have been serialized and decoded
C4_Witness ==
  /\ last.cmd = "deserialize" /\ input.stage = "encoded"
  /\ Len(last.out) = 2
  /\ \E i \in 1..2 : IndexByte(last.out[i].name, SP) >= 0
  /\ \E i \in 1..2 : IndexByte(last.out[i].child, NUL) >= 0

\* C5: decoding succeeds only on a payload made of whole records: a payload
\* that ends less than DigestLen bytes after a NUL is rejected
C5_MalformedRejected ==
  (last.cmd = "deserialize" /\ last.status = "ok") =>
    /\ \A i \in 1..Len(last.out) : Len(last.out[i].child) = DigestLen
    /\ serialize(last.out) = input.payload

(***************************************************************************)
(* The command handlers (lines 71-172).  A handler runs from start to end  *)
(* on the files; its result is the exit status, what it printed on stdout  *)
(* (a sequence of lines), and the files and directories it leaves.         *)
(***************************************************************************)
Result(status, out, fs, ds) == [status |-> status, out |-> out, fs |-> fs, ds |-> ds]

\* lines 72-76: init makes directories and HEAD and leaves the objects alone
cmdInitFilesWipe(fs) == NoFiles

cmdInitFiles(fs) == fs

cmdInitDirs(ds) == ds \cup {<<".git">>, <<".git", "objects">>, <<".git", "refs">>}

\* "Initialized git directory"
InitMessage ==
  <<73, 110, 105, 116, 105, 97, 108, 105, 122, 101, 100, 32, 103, 105, 116, 32,
    100, 105, 114, 101, 99, 116, 111, 114, 121>>

\* lines 80-93; file is <<content>>, or <<>> for a file that cannot be read
cmdHashObject(fs, ds, args, file) ==
  IF Len(args) < 2 \/ args[1] # "-w" THEN Result("exit1", <<>>, fs, ds)
  ELSE IF file = <<>> THEN Result("exit1", <<>>, fs, ds)
  ELSE Result("ok", <<writeObjectReturn(fs, KindBlob, file[1])>>,
              writeObjectFiles(fs, KindBlob, file[1]),
              writeObjectDirs(ds, objectHash(KindBlob, file[1])))

\* lines 95-107
cmdCatFile(fs, ds, args) ==
  IF Len(args) < 2 \/ args[1] # "-p" THEN Result("exit1", <<>>, fs, ds)
  ELSE LET r == readObject(fs, args[2])
       IN  IF r.status # "ok" THEN Result(r.status, <<>>, fs, ds)
           ELSE IF r.kind # KindBlob THEN Result("exit1", <<>>, fs, ds)
           ELSE Result("ok", <<r.content>>, fs, ds)

\* lines 111-129: the walk over the files of ".", in lexical order; walk is
\* the sequence of regular files visited, each [path, content]
RECURSIVE walkFiles(_, _, _, _)
walkFiles(fs, ds, entries, walk) ==
  IF walk = <<>> THEN [fs |-> fs, ds |-> ds, entries |-> entries]
  ELSE LET f == Head(walk)
       IN  IF HasPrefix(f.path, <<46, 103, 105, 116>>)
           THEN walkFiles(fs, ds, entries, Tail(walk))
           ELSE walkFiles(writeObjectFiles(fs, KindBlob, f.content),
                          writeObjectDirs(ds, objectHash(KindBlob, f.content)),
                          entries \o treeEntry(Mode, f.path,
                            hexDecodeString(writeObjectReturn(fs, KindBlob, f.content))),
                          Tail(walk))

\* lines 109-132
cmdWriteTree(fs, ds, walk) ==
  LET w == walkFiles(fs, ds, <<>>, walk)
  IN  Result("ok", <<writeObjectReturn(w.fs, KindTree, w.entries)>>,
             writeObjectFiles(w.fs, KindTree, w.entries),
             writeObjectDirs(w.ds, objectHash(KindTree, w.entries)))

\* lines 134-158
cmdLsTree(fs, ds, args) ==
  IF Len(args) < 2 \/ args[1] # "--name-only" THEN Result("exit1", <<>>, fs, ds)
  ELSE LET r == readObject(fs, args[2])
       IN  IF r.status # "ok" THEN Result(r.status, <<>>, fs, ds)
           ELSE IF r.kind # KindTree THEN Result("exit1", <<>>, fs, ds)
           ELSE LET t == lsTree(r.content)
                IN  Result(t.status, entryNames(t.entries), fs, ds)

\* line 167: strings.Join(tokens, " ")
RECURSIVE Join(_)
Join(tokens) ==
  IF tokens = <<>> THEN <<>>
  ELSE IF Len(tokens) = 1 THEN tokens[1]
  ELSE tokens[1] \o <<SP>> \o Join(Tail(tokens))

\* line 169: "tree %s\n\n%s\n"
commitContentOneLF(treeHash, message) ==
  KindTree \o <<SP>> \o treeHash \o <<LF>> \o message \o <<LF>>

commitContent(treeHash, message) ==
  KindTree \o <<SP>> \o treeHash \o <<LF, LF>> \o message \o <<LF>>

\* lines 160-172
cmdCommitTree(fs, ds, args) ==
  IF Len(args) < 3 \/ args[2] # "-m" THEN Result("exit1", <<>>, fs, ds)
  ELSE LET content == commitContent(args[1], Join(SubSeq(args, 3, Len(args))))
       IN  Result("ok", <<writeObjectReturn(fs, KindCommit, content)>>,
                  writeObjectFiles(fs, KindCommit, content),
                  writeObjectDirs(ds, objectHash(KindCommit, content)))

(***************************************************************************)
(* Spec: the commands run one after another on one directory, which starts *)
(* empty.  The arguments, the file hash-object reads and the files         *)
(* write-tree walks are inputs drawn from small sets.  log tells whether   *)
(* some command has written an object file that was there already.         *)
(*                                                                         *)
(* A handler only creates or rewrites whole object files and never reads   *)
(* one before writing, so what it does to a store is what it does to the   *)
(* empty store, laid over the store (LaidOver).  The results on the empty  *)
(* store are tabulated once per input; HandlersLaidOver states the         *)
(* equality the tables rest on.                                            *)
(***************************************************************************)
\* file contents: empty, and "a" followed by a NUL byte
FileContents == {<<>>, <<97, NUL>>}
\* ".gitx", "a", "b c": in the order filepath.Walk visits them
WalkPaths == <<<<46, 103, 105, 116, 120>>, <<97>>, <<98, SP, 99>>>>
\* each path is absent (<<>>) or a file with some content (<<content>>)
RECURSIVE Listing(_, _)
Listing(there, i) ==
  IF i > Len(WalkPaths) THEN <<>>
  ELSE (IF there[i] = <<>> THEN <<>>
        ELSE <<[path |-> WalkPaths[i], content |-> there[i][1]]>>)
       \o Listing(there, i + 1)
Walks ==
  {Listing(th, 1) :
     th \in [1..Len(WalkPaths) -> {<<>>} \cup {<<c>> : c \in FileContents}]}
\* the words after -m: "m", and "m" "n"
Messages == {<<<<109>>>>, <<<<109>>, <<110>>>>}
\* hashes given on the command line: those in the store, an absent one, and
\* a string too short to be one
HashArgs(fs) == present(fs) \cup {AbsentHash, <<97>>}

HashObjectArgs ==
  {<<<<"-w", "file">>, <<c>>>> : c \in FileContents}
  \cup {<<<<"-w", "file">>, <<>>>>, <<<<"-w">>, <<>>>>, <<<<"-t", "file">>, <<>>>>}
CatFileArgs(fs) == {<<"-p", h>> : h \in HashArgs(fs)} \cup {<<"-p">>, <<"-t", AbsentHash>>}
LsTreeArgs(fs) ==
  {<<"--name-only", h>> : h \in HashArgs(fs)} \cup {<<"--name-only">>, <<"-l", AbsentHash>>}
CommitTreeArgs(fs) ==
  {<<h, "-m">> \o m : h \in present(fs) \cup {AbsentHash}, m \in Messages}
  \cup {<<AbsentHash, "-m">>, <<AbsentHash, "-x", <<109>>>>}

LaidOver(r, fs, ds) == [r EXCEPT !.fs = r.fs @@ fs, !.ds = r.ds \cup ds]

hashObjectTable ==
  [a \in HashObjectArgs |-> cmdHashObject(NoFiles, {}, a[1], a[2])]
writeTreeTable == [walk \in Walks |-> cmdWriteTree(NoFiles, {}, walk)]
\* the hashes of the blobs and trees, and of the commits up to n deep on them
RECURSIVE knownHashes(_)
knownHashes(n) ==
  IF n = 0
  THEN UNION {present(writeTreeTable[walk].fs) : walk \in Walks} \cup {AbsentHash}
  ELSE LET below == knownHashes(n - 1)
       IN  below \cup {cmdCommitTree(NoFiles, {}, <<h, "-m">> \o m).out[1] :
                         h \in below, m \in Messages}
commitTreeTable ==
  [a \in {<<h, "-m">> \o m : h \in knownHashes(MaxObjects - 1), m \in Messages}
         \cup CommitTreeArgs(NoFiles) |->
     cmdCommitTree(NoFiles, {}, a)]
commitTreeResult(args) ==
  IF args \in DOMAIN commitTreeTable THEN commitTreeTable[args]
  ELSE cmdCommitTree(NoFiles, {}, args)

HandlersLaidOver ==
  /\ \A a \in HashObjectArgs :
       cmdHashObject(files, dirs, a[1], a[2]) = LaidOver(hashObjectTable[a], files, dirs)
  /\ \A walk \in Walks :
       cmdWriteTree(files, dirs, walk) = LaidOver(writeTreeTable[walk], files, dirs)
  /\ \A a \in CommitTreeArgs(files) :
       cmdCommitTree(files, dirs, a) = LaidOver(commitTreeResult(a), files, dirs)

Init ==
  /\ files = NoFiles
  /\ dirs = {}
  /\ head = <<>>
  /\ last = NoLast
  /\ input = <<>>
  /\ log = FALSE
  /\ procs = <<>>

\* the command ends with result r
Finish(cmd, args, r) ==
  /\ Cardinality(DOMAIN r.fs) <= MaxObjects
  /\ files' = r.fs
  /\ dirs' = r.ds
  /\ last' = [cmd |-> cmd, arg |-> args, status |-> r.status, out |-> r.out]
  /\ log' = (log \/ \E path \in DOMAIN files :
                      cmd \in {"hash-object", "write-tree", "commit-tree"}
                      /\ r.status = "ok" /\ pathHash(path) \in Range(r.out))
  /\ UNCHANGED <<input, procs>>

CmdInit ==
  /\ Finish("init", <<>>,
            Result("ok", <<InitMessage>>, cmdInitFiles(files), cmdInitDirs(dirs)))
  /\ head' = <<headFileContents>>

CmdHashObject ==
  /\ \E a \in HashObjectArgs :
       Finish("hash-object", a[1] \o a[2], LaidOver(hashObjectTable[a], files, dirs))
  /\ UNCHANGED head

CmdCatFile ==
  /\ \E args \in CatFileArgs(files) :
       Finish("cat-file", args, cmdCatFile(files, dirs, args))
  /\ UNCHANGED head

CmdWriteTree ==
  /\ \E walk \in Walks :
       Finish("write-tree", walk, LaidOver(writeTreeTable[walk], files, dirs))
  /\ UNCHANGED head

CmdLsTree ==
  /\ \E args \in LsTreeArgs(files) :
       Finish("ls-tree", args, cmdLsTree(files, dirs, args))
  /\ UNCHANGED head

CmdCommitTree ==
  /\ \E args \in CommitTreeArgs(files) :
       Finish("commit-tree", args, LaidOver(commitTreeResult(args), files, dirs))
  /\ UNCHANGED head

Next ==
  \/ CmdInit
  \/ CmdHashObject
  \/ CmdCatFile
  \/ CmdWriteTree
  \/ CmdLsTree
  \/ CmdCommitTree

Spec == Init /\ [][Next]_vars

\* readObject reads the one file at the path of hash, so a file left byte for
\* byte the same loads the same
sameFile(fs1, fs2, path) == path \in DOMAIN fs2 /\ fs2[path] = fs1[path]

\* C7: whatever command runs, an address that holds an object (k, p) before
\* the command holds the same (k, p) after it: no object is deleted and no
\* address comes to load as anything else.
C7_MonotonicStore ==
  [][\A h \in present(files) :
       \/ sameFile(files, files', objectPath(h))
       \/ LET before == readObject(files, h)
          IN  before.status = "ok" => readObject(files', h) = before]_vars

\* a command has written again an object that was in the store, and it loads
C7_Witness ==
  /\ log
  /\ last.cmd \in {"hash-object", "write-tree", "commit-tree"}
  /\ last.status = "ok"
  /\ readObject(files, last.out[1]).status = "ok"

\* C10: commit-tree t -m words... ends well whatever t is, returns the
\* address of "commit <len>\0tree <t>\n\n<m>\n" where m is the words joined by
\* spaces, and that address then loads as kind commit with that payload.
C10_CommitEncoding ==
  (last.cmd = "commit-tree" /\ Len(last.arg) >= 3 /\ last.arg[2] = "-m") =>
    LET t == last.arg[1]
        m == Join(SubSeq(last.arg, 3, Len(last.arg)))
        payload == <<116, 114, 101, 101, 32>> \o t \o <<10, 10>> \o m \o <<10>>
    IN  /\ last.status = "ok"
        /\ last.out = <<objectHash(<<99, 111, 109, 109, 105, 116>>, payload)>>
        /\ LET r == readObject(files, last.out[1])
           IN  /\ r.status = "ok"
               /\ r.kind = <<99, 111, 109, 109, 105, 116>>
               /\ r.content = payload

\* a commit of a tree address that no object of the store has
C10_Witness ==
  /\ last.cmd = "commit-tree"
  /\ last.status = "ok"
  /\ Len(last.arg) = 4
  /\ last.arg[1] = AbsentHash
  /\ AbsentHash \notin present(files)
  /\ last.out[1] \in present(files)

(***************************************************************************)
(* SpecConc: two calls of writeObject on the same (input.k, input.p) and   *)
(* one call of readObject on its hash run at once, one system call at a    *)
(* step.  procs[1] and procs[2] are the writers, procs[3] is the reader.   *)
(* Each writer has its own descriptor, so it writes at its own offsets:    *)
(* the zlib header at 0 (zw.Write, line 34), then the deflate block and    *)
(* the checksum (zw.Close, line 39).  input.pre tells whether the object   *)
(* was in the store before the calls began.  log.torn tells whether a      *)
(* writer has truncated the file while the other was part way through it.  *)
(***************************************************************************)
Writers == {1, 2}
Reader == 3

InitConc ==
  /\ input \in [k : Kinds, p : Payloads, pre : BOOLEAN]
  /\ files = IF input.pre THEN writeObjectFiles(NoFiles, input.k, input.p) ELSE NoFiles
  /\ dirs = IF input.pre THEN writeObjectDirs({}, objectHash(input.k, input.p)) ELSE {}
  /\ head = <<>>
  /\ last = NoLast
  /\ log = [torn |-> FALSE]
  /\ procs = <<Idle, Idle, Idle>>

\* lines 16-25: header, hash, path and os.MkdirAll
WriterCall(i) ==
  /\ procs[i].pc = "idle"
  /\ procs' = [procs EXCEPT ![i] = [@ EXCEPT !.pc = "open", !.kind = input.k,
                                               !.content = input.p,
                                               !.hash = objectHash(input.k, input.p)]]
  /\ dirs' = writeObjectDirs(dirs, objectHash(input.k, input.p))
  /\ UNCHANGED <<files, head, last, input, log>>

\* lines 26-30: os.OpenFile
WriterOpen(i) ==
  /\ procs[i].pc = "open"
  /\ files' = stepOpen(files, objectPath(procs[i].hash))
  /\ procs' = [procs EXCEPT ![i].pc = "header"]
  /\ log' = [log EXCEPT !.torn = @ \/ \E j \in Writers \ {i} :
                                         procs[j].pc \in {"body", "checksum"}]
  /\ UNCHANGED <<dirs, head, last, input>>

\* line 34: zw.Write puts the zlib header out
WriterHeader(i) ==
  /\ procs[i].pc = "header"
  /\ files' = stepHeader(files, objectPath(procs[i].hash),
                         objectBytes(procs[i].kind, procs[i].content))
  /\ procs' = [procs EXCEPT ![i].pc = "body"]
  /\ UNCHANGED <<dirs, head, last, input, log>>

\* line 39: zw.Close puts the compressed bytes out
WriterBody(i) ==
  /\ procs[i].pc = "body"
  /\ files' = stepBody(files, objectPath(procs[i].hash),
                       objectBytes(procs[i].kind, procs[i].content))
  /\ procs' = [procs EXCEPT ![i].pc = "checksum"]
  /\ UNCHANGED <<dirs, head, last, input, log>>

\* lines 39-45: zw.Close puts the checksum out, the file is closed and the
\* hash returned
WriterChecksum(i) ==
  /\ procs[i].pc = "checksum"
  /\ files' = stepChecksum(files, objectPath(procs[i].hash),
                           objectBytes(procs[i].kind, procs[i].content))
  /\ procs' = [procs EXCEPT ![i] = [@ EXCEPT !.pc = "done",
                 !.res = <<writeObjectReturn(files, procs[i].kind, procs[i].content)>>]]
  /\ UNCHANGED <<dirs, head, last, input, log>>

\* lines 49-56: os.Open; a missing file ends the process with status 1
ReaderOpen ==
  /\ procs[Reader].pc = "idle"
  /\ LET hash == objectHash(input.k, input.p)
     IN  procs' = [procs EXCEPT ![Reader] =
                     IF objectPath(hash) \in DOMAIN files
                     THEN [@ EXCEPT !.pc = "opened", !.hash = hash]
                     ELSE [@ EXCEPT !.pc = "done", !.hash = hash,
                                    !.res = <<readObject(files, hash)>>]]
  /\ UNCHANGED <<files, dirs, head, last, input, log>>

\* lines 59-68: the bytes the file has now are read, inflated and split
ReaderRead ==
  /\ procs[Reader].pc = "opened"
  /\ procs' = [procs EXCEPT ![Reader] = [@ EXCEPT !.pc = "done",
                 !.res = <<readObject(files, procs[Reader].hash)>>]]
  /\ UNCHANGED <<files, dirs, head, last, input, log>>

WriterStep ==
  \E i \in Writers :
    \/ WriterCall(i)
    \/ WriterOpen(i)
    \/ WriterHeader(i)
    \/ WriterBody(i)
    \/ WriterChecksum(i)

NextConc == WriterStep \/ ReaderOpen \/ ReaderRead

SpecConc == InitConc /\ [][NextConc]_vars

\* C8: when both writers of (k, p) have returned, they have returned the
\* same hash and readObject of it gives exactly (k, p), however their steps
\* were interleaved.
C8_ConcurrentWriters ==
  (\A i \in Writers : procs[i].pc = "done") =>
    /\ procs[1].res = procs[2].res
    /\ readObject(files, procs[1].res[1]) =
         [status |-> "ok", kind |-> input.k, content |-> input.p]

\* both writers are done and one truncated the file under the other
C8_Witness ==
  /\ \A i \in Writers : procs[i].pc = "done"
  /\ log.torn

\* C9: a readObject that runs while the object is being written either
\* finds no file or returns the whole (k, p).
C9_AtomicPublication ==
  procs[Reader].pc = "done" =>
    \/ procs[Reader].res[1].status = "exit1"
    \/ procs[Reader].res[1] = [status |-> "ok", kind |-> input.k, content |-> input.p]

====
